---------------------------- MODULE Spec2Model ----------------------------
(***************************************************************************)
(* DatasetForSAITS (pypots/imputation/saits/data.py): the dataset that     *)
(* returns, for a sample index, the original series, a copy with          *)
(* artificially missing values and the two masks, optionally followed by  *)
(* the label.  The data is held in memory (self.X, self.y) or read        *)
(* through a lazily opened file handle.                                    *)
(*                                                                         *)
(* A series is modelled flattened (mcar flattens it and restores the      *)
(* shape), so its shape is its length.  A tensor is a record of its dtype *)
(* and its data.  Python indices are 0-based; TLA+ sequences are 1-based. *)
(***************************************************************************)
EXTENDS Integers, Sequences, FiniteSets

\* ------------------------------------------------------------------ bounds
NumSamples == 2
SeqLen == 3
MaxMissing == 3

\* ------------------------------------------------------- values and tensors
NaN == -1
None == 0
NoLabels == <<>>

Observed == {1}
Cells == {NaN} \cup Observed
Accessors == {1, 2}
DefaultRate == 20
Rates == {DefaultRate, 50}
StoredDtype == "float64"

Indices == 0 .. (NumSamples - 1)
Requested == 0 .. NumSamples
Positions == 1 .. SeqLen
Series == [Positions -> Cells]
Datasets == {1, 2}
Single == CHOOSE d \in Datasets : \A e \in Datasets : d <= e

VARIABLES
    X,              \* the series of the underlying data: self.X / file["X"]
    y,              \* the labels of the underlying data, NoLabels when it has none
    file,           \* the data file: readable, keys
    mode,           \* "array" (data given as a dict) or "file" (a path)
    return_labels,  \* self.return_labels
    rate,           \* self.rate, in percent
    file_handle,    \* self.file_handle of each dataset object, None when unset
    opens,          \* handles opened so far by each dataset object
    accessed,       \* whether fetch_data was ever called on the dataset object
    result,         \* what the last access gave its caller
    built,          \* the attributes as __init__ left them
    owner,          \* the dataset object each accessor calls
    pc,             \* where each accessor stands in _fetch_data_from_file
    local           \* the locals of each accessor's call: idx, the handle it opened

vars == <<X, y, file, mode, return_labels, rate, file_handle, opens, accessed,
          result, built, owner, pc, local>>

IsNan(v) == v = NaN

Tensor(dtype, data) == [dtype |-> dtype, data |-> data]

\* Tensor.to(dtype): every value of the model (NaN, 0, 1, a label, an index) is
\* representable in float32 and in int64, so the cast keeps the values and
\* changes the dtype.
to(t, dtype) == [dtype |-> dtype, data |-> t.data]

\* torch.nan_to_num(X, nan=0)
nan_to_num(data) == [k \in DOMAIN data |-> IF IsNan(data[k]) THEN 0 ELSE data[k]]

\* ------------------------------------------------------------------- mcar
\* indices = torch.where(~torch.isnan(X))
ObservedIdx(data) == {k \in DOMAIN data : ~IsNan(data[k])}

\* int(len(indices) * rate)
NumMasked(data, r) == (Cardinality(ObservedIdx(data)) * r) \div 100

\* np.random.choice(indices, n, replace=False): every outcome it can draw
McarChoices(data, r) ==
    {S \in SUBSET ObservedIdx(data) : Cardinality(S) = NumMasked(data, r)}

\* X_intact, X, missing_mask, indicating_mask = mcar(X, rate), for the drawn
\* indices; works on a copy of its argument.
mcar(t, drawn) ==
    LET intact == t.data
        corrupted == [k \in DOMAIN intact |-> IF k \in drawn THEN NaN ELSE intact[k]]
        indicating == [k \in DOMAIN intact |->
                          IF (~IsNan(intact[k])) # (~IsNan(corrupted[k])) THEN 1 ELSE 0]
        missing == [k \in DOMAIN intact |-> IF ~IsNan(corrupted[k]) THEN 1 ELSE 0]
    IN  << Tensor(t.dtype, nan_to_num(intact)),
           Tensor(t.dtype, nan_to_num(corrupted)),
           Tensor("float32", missing),
           Tensor("float32", indicating) >>


\* ------------------------------------------------- the underlying data
\* self.X[idx] and self.file_handle["X"][idx]: the stored series of index idx
Row(idx) == X[idx + 1]

\* self.y[idx] and self.file_handle["y"][idx]
Label(idx) == y[idx + 1]

\* self.file_handle.keys()
keys(handle) == file.keys

\* ------------------------------------------------- _fetch_data_from_array
\* ArrayList with the test of return_labels left out of line 102
ArrayListAnyLabel(idx, out) ==
    LET sample == << Tensor("int64", <<idx>>),
                     to(out[1], "float32"),
                     to(out[2], "float32"),
                     to(out[3], "float32"),
                     to(out[4], "float32") >>
    IN  IF y # NoLabels
        THEN Append(sample, to(Tensor(StoredDtype, <<Label(idx)>>), "int64"))
        ELSE sample

\* ArrayList with the cast of line 103 left out
ArrayListNoCast(idx, out) ==
    LET sample == << Tensor("int64", <<idx>>),
                     to(out[1], "float32"),
                     to(out[2], "float32"),
                     to(out[3], "float32"),
                     to(out[4], "float32") >>
    IN  IF y # NoLabels /\ return_labels
        THEN Append(sample, Tensor(StoredDtype, <<Label(idx)>>))
        ELSE sample

\* lines 94 to 105: the list built from idx and the four tensors mcar returned
ArrayList(idx, out) ==
    LET sample == << Tensor("int64", <<idx>>),
                     to(out[1], "float32"),
                     to(out[2], "float32"),
                     to(out[3], "float32"),
                     to(out[4], "float32") >>
    IN  IF y # NoLabels /\ return_labels
        THEN Append(sample, to(Tensor(StoredDtype, <<Label(idx)>>), "int64"))
        ELSE sample

\* ArrayOutcomes reading self.X[0] in line 91
ArrayOutcomesFirstRow(idx) ==
    LET t == Tensor(StoredDtype, Row(0))
    IN  {[drawn |-> drawn, sample |-> ArrayList(idx, mcar(t, drawn))] :
            drawn \in McarChoices(t.data, rate)}

\* lines 91 to 105 for a valid idx: every list the call can return, with the
\* positions mcar drew for it
ArrayOutcomes(idx) ==
    LET t == Tensor(StoredDtype, Row(idx))
    IN  {[drawn |-> drawn, sample |-> ArrayList(idx, mcar(t, drawn))] :
            drawn \in McarChoices(t.data, rate)}

\* ------------------------------------------------- _fetch_data_from_file
\* FileList with the two masks of lines 132 and 133 in each other's place
FileListSwapped(handle, idx, out) ==
    LET sample == << Tensor("int64", <<idx>>),
                     to(out[1], "float32"),
                     to(out[2], "float32"),
                     to(out[4], "float32"),
                     to(out[3], "float32") >>
    IN  IF "y" \in keys(handle) /\ return_labels
        THEN Append(sample, Tensor("int64", <<Label(idx)>>))
        ELSE sample

\* FileList with indicating_mask in line 132 too
FileListMaskTwice(handle, idx, out) ==
    LET sample == << Tensor("int64", <<idx>>),
                     to(out[1], "float32"),
                     to(out[2], "float32"),
                     to(out[4], "float32"),
                     to(out[4], "float32") >>
    IN  IF "y" \in keys(handle) /\ return_labels
        THEN Append(sample, Tensor("int64", <<Label(idx)>>))
        ELSE sample

\* lines 128 to 140: the list built from idx and the four tensors mcar returned
FileList(handle, idx, out) ==
    LET sample == << Tensor("int64", <<idx>>),
                     to(out[1], "float32"),
                     to(out[2], "float32"),
                     to(out[3], "float32"),
                     to(out[4], "float32") >>
    IN  IF "y" \in keys(handle) /\ return_labels
        THEN Append(sample, Tensor("int64", <<Label(idx)>>))
        ELSE sample

\* lines 125 to 140 for a valid idx, through an opened handle of a file that
\* holds "X"
FileOutcomes(handle, idx) ==
    LET t == Tensor(StoredDtype, Row(idx))
    IN  {[drawn |-> drawn, sample |-> FileList(handle, idx, mcar(t, drawn))] :
            drawn \in McarChoices(t.data, rate)}

\* ------------------------------------------------- what an access gives
\* earlier: how the access before this one ended ("none": there was none;
\* "failed": it raised; "same": it returned this index with another draw;
\* "other": it returned otherwise)
NoResult ==
    [self |-> Single, idx |-> 0, status |-> "none", sample |-> <<>>, drawn |-> {},
     opened |-> 0, read |-> 0, earlier |-> "none"]

Failed(r) == r.status \in {"IndexError", "KeyError", "OSError"}

Earlier(idx, drawn) ==
    IF result.status = "none" THEN "none"
    ELSE IF Failed(result) THEN "failed"
    ELSE IF result.idx = idx /\ result.drawn # drawn THEN "same"
    ELSE "other"

\* the access returned outcome.sample
Returned(self, idx, outcome, opened) ==
    [self |-> self, idx |-> idx, status |-> "returned", sample |-> outcome.sample,
     drawn |-> outcome.drawn, opened |-> opened, read |-> 1,
     earlier |-> Earlier(idx, outcome.drawn)]

\* Raised after one more try of what failed
RaisedAfterRetry(self, idx, error, opened, read) ==
    [self |-> self, idx |-> idx, status |-> error, sample |-> <<>>,
     drawn |-> {}, opened |-> opened + opened, read |-> read + read,
     earlier |-> Earlier(idx, {})]

\* the access raised `error` after `opened` calls of _open_file_handle and `read`
\* reads of the series: the exception leaves the method, nothing is returned
Raised(self, idx, error, opened, read) ==
    [self |-> self, idx |-> idx, status |-> error, sample |-> <<>>,
     drawn |-> {}, opened |-> opened, read |-> read,
     earlier |-> Earlier(idx, {})]

\* ------------------------------------------------- the operations
\* Row(idx) with the positions of `drawn` made missing
Corrupted(idx, drawn) ==
    [k \in Positions |-> IF k \in drawn THEN NaN ELSE Row(idx)[k]]

\* fetch_data_from_array with mcar working on self.X[idx] itself, not on a copy
fetch_data_from_array_in_place(self, idx) ==
    /\ accessed' = [accessed EXCEPT ![self] = TRUE]
    /\ IF idx \notin Indices
       THEN /\ result' = Raised(self, idx, "IndexError", 0, 1)
            /\ UNCHANGED X
       ELSE \E outcome \in ArrayOutcomes(idx) :
               /\ result' = Returned(self, idx, outcome, 0)
               /\ X' = [X EXCEPT ![idx + 1] = Corrupted(idx, outcome.drawn)]
    /\ UNCHANGED <<y, file, mode, return_labels, rate, file_handle, opens, built>>
    /\ UNCHANGED <<owner, pc, local>>

fetch_data_from_array(self, idx) ==
    /\ accessed' = [accessed EXCEPT ![self] = TRUE]
    /\ IF idx \notin Indices
       THEN result' = Raised(self, idx, "IndexError", 0, 1)
       ELSE \E outcome \in ArrayOutcomes(idx) :
               result' = Returned(self, idx, outcome, 0)
    /\ UNCHANGED <<X, y, file, mode, return_labels, rate, file_handle, opens, built>>
    /\ UNCHANGED <<owner, pc, local>>

\* NeedsOpen without the test
AlwaysOpen(self) == TRUE

\* line 122: self.file_handle is None
NeedsOpen(self) == file_handle[self] = None

\* self._open_file_handle(): a handle of the file, None when opening it fails
open_file_handle(self) == IF file.readable THEN opens[self] + 1 ELSE None

\* Assigned keeping the handle in a local of the call
NotAssigned(self, handle) == file_handle

\* line 123: self.file_handle = handle
Assigned(self, handle) == [file_handle EXCEPT ![self] = handle]

\* fetch_data_from_file dropping the handle when the read fails
fetch_data_from_file_resetting(self, idx) ==
    LET unset == NeedsOpen(self)
        handle == IF unset THEN open_file_handle(self) ELSE file_handle[self]
        opened == IF unset THEN 1 ELSE 0
    IN  /\ accessed' = [accessed EXCEPT ![self] = TRUE]
        /\ IF handle = None
           THEN /\ result' = Raised(self, idx, "OSError", opened, 0)
                /\ UNCHANGED <<file_handle, opens>>
           ELSE /\ opens' = [opens EXCEPT ![self] = @ + opened]
                /\ IF "X" \notin keys(handle)
                   THEN /\ result' = Raised(self, idx, "KeyError", opened, 0)
                        /\ file_handle' = [file_handle EXCEPT ![self] = None]
                   ELSE IF idx \notin Indices
                   THEN /\ result' = Raised(self, idx, "IndexError", opened, 1)
                        /\ file_handle' = [file_handle EXCEPT ![self] = None]
                   ELSE /\ file_handle' = Assigned(self, handle)
                        /\ \E outcome \in FileOutcomes(handle, idx) :
                              result' = Returned(self, idx, outcome, opened)
        /\ UNCHANGED <<X, y, file, mode, return_labels, rate, built>>
        /\ UNCHANGED <<owner, pc, local>>

fetch_data_from_file(self, idx) ==
    LET unset == NeedsOpen(self)
        handle == IF unset THEN open_file_handle(self) ELSE file_handle[self]
        opened == IF unset THEN 1 ELSE 0
    IN  /\ accessed' = [accessed EXCEPT ![self] = TRUE]
        /\ IF handle = None
           THEN /\ result' = Raised(self, idx, "OSError", opened, 0)
                /\ UNCHANGED <<file_handle, opens>>
           ELSE /\ file_handle' = IF unset THEN Assigned(self, handle) ELSE file_handle
                /\ opens' = [opens EXCEPT ![self] = @ + opened]
                /\ IF "X" \notin keys(file_handle'[self])
                   THEN result' = Raised(self, idx, "KeyError", opened, 0)
                   ELSE IF idx \notin Indices
                   THEN result' = Raised(self, idx, "IndexError", opened, 1)
                   ELSE \E outcome \in FileOutcomes(file_handle'[self], idx) :
                           result' = Returned(self, idx, outcome, opened)
        /\ UNCHANGED <<X, y, file, mode, return_labels, rate, built>>
        /\ UNCHANGED <<owner, pc, local>>

\* ------------------------------------------------- two accessors
\* _fetch_data_from_file statement by statement, for accessors that run it at
\* the same time: the test of line 122, the call and the assignment of line
\* 123, and lines 125 to 140.
NoLocals == [idx |-> 0, handle |-> None]

\* line 122: if self.file_handle is None
TestHandle(a, idx) ==
    /\ pc[a] = "idle"
    /\ accessed' = [accessed EXCEPT ![owner[a]] = TRUE]
    /\ local' = [local EXCEPT ![a] = [idx |-> idx, handle |-> None]]
    /\ pc' = [pc EXCEPT ![a] = IF NeedsOpen(owner[a]) THEN "open" ELSE "read"]
    /\ UNCHANGED <<X, y, file, mode, return_labels, rate, file_handle, opens,
                   result, built, owner>>

\* line 123, right-hand side: self._open_file_handle()
OpenHandle(a) ==
    LET self == owner[a]
        handle == open_file_handle(self)
    IN  /\ pc[a] = "open"
        /\ IF handle = None
           THEN /\ result' = Raised(self, local[a].idx, "OSError", 1, 0)
                /\ pc' = [pc EXCEPT ![a] = "idle"]
                /\ local' = [local EXCEPT ![a] = NoLocals]
                /\ UNCHANGED opens
           ELSE /\ opens' = [opens EXCEPT ![self] = @ + 1]
                /\ local' = [local EXCEPT ![a].handle = handle]
                /\ pc' = [pc EXCEPT ![a] = "assign"]
                /\ UNCHANGED result
        /\ UNCHANGED <<X, y, file, mode, return_labels, rate, file_handle, accessed,
                       built, owner>>

\* line 123, the assignment: self.file_handle = ...
AssignHandle(a) ==
    /\ pc[a] = "assign"
    /\ file_handle' = Assigned(owner[a], local[a].handle)
    /\ pc' = [pc EXCEPT ![a] = "read"]
    /\ UNCHANGED <<X, y, file, mode, return_labels, rate, opens, accessed, result,
                   built, owner, local>>

\* lines 125 to 140, through self.file_handle
ReadSample(a) ==
    LET self == owner[a]
        idx == local[a].idx
        handle == file_handle[self]
        opened == IF local[a].handle = None THEN 0 ELSE 1
    IN  /\ pc[a] = "read"
        /\ IF "X" \notin keys(handle)
           THEN result' = Raised(self, idx, "KeyError", opened, 0)
           ELSE IF idx \notin Indices
           THEN result' = Raised(self, idx, "IndexError", opened, 1)
           ELSE \E outcome \in FileOutcomes(handle, idx) :
                   result' = Returned(self, idx, outcome, opened)
        /\ pc' = [pc EXCEPT ![a] = "idle"]
        /\ local' = [local EXCEPT ![a] = NoLocals]
        /\ UNCHANGED <<X, y, file, mode, return_labels, rate, file_handle, opens,
                       accessed, built, owner>>

\* the handles a dataset object opened that neither self.file_handle nor a call
\* about to assign one refers to
Unreferenced(d) ==
    {h \in 1 .. opens[d] :
        /\ file_handle[d] # h
        /\ \A a \in Accessors :
              ~(owner[a] = d /\ pc[a] = "assign" /\ local[a].handle = h)}

\* ------------------------------------------------- construction
Files ==
    {f \in [readable : BOOLEAN, keys : SUBSET {"X", "y"}] :
        /\ ("y" \in f.keys) = (y # NoLabels)
        /\ ~f.readable => "X" \in f.keys}

\* the missing entries of the series x
MissingCells(x) ==
    {c \in (1 .. NumSamples) \X Positions : IsNan(x[c[1]][c[2]])}

\* series without missing values
FullyObserved ==
    [i \in 1 .. NumSamples |-> [k \in Positions |-> CHOOSE v \in Observed : TRUE]]

\* the labels, one class per index
Labelled == [i \in 1 .. NumSamples |-> i - 1]

Attributes ==
    [X |-> X, y |-> y, mode |-> mode, return_labels |-> return_labels, rate |-> rate]

\* BaseDataset.__init__ and DatasetForSAITS.__init__
Built ==
    /\ X \in {x \in [1 .. NumSamples -> Series] :
                Cardinality(MissingCells(x)) <= MaxMissing}
    /\ y \in {NoLabels, Labelled}
    /\ mode \in {"array", "file"}
    /\ file \in Files
    /\ mode = "array" => file.readable /\ "X" \in file.keys
    \* a file that does not open or holds no "X" gives no series to tell apart
    /\ ~(file.readable /\ "X" \in file.keys) => X = FullyObserved
    /\ return_labels \in BOOLEAN
    /\ rate \in Rates
    /\ file_handle = [d \in Datasets |-> None]
    /\ opens = [d \in Datasets |-> 0]
    /\ accessed = [d \in Datasets |-> FALSE]
    /\ result = NoResult
    /\ built = Attributes
    /\ pc = [a \in Accessors |-> "idle"]
    /\ local = [a \in Accessors |-> NoLocals]

\* one accessor, one dataset object
Init ==
    /\ Built
    /\ owner = [a \in Accessors |-> Single]

\* BaseDataset.__getitem__: self.fetch_data is bound at construction
ArrayAccess ==
    /\ mode = "array"
    /\ \E idx \in Requested : fetch_data_from_array(Single, idx)

FileAccess ==
    /\ mode = "file"
    /\ \E idx \in Requested : fetch_data_from_file(Single, idx)

Next == ArrayAccess \/ FileAccess

Spec == Init /\ [][Next]_vars

\* two accessors of file-backed data, sharing a dataset object or each with
\* its own; the series are fully observed and unlabelled
InitShared ==
    /\ Built
    /\ mode = "file"
    /\ X = FullyObserved
    /\ y = NoLabels
    /\ rate = DefaultRate
    /\ return_labels
    /\ owner \in {[a \in Accessors |-> Single], [a \in Accessors |-> a]}

Test == \E a \in Accessors, idx \in Requested : TestHandle(a, idx)
Open == \E a \in Accessors : OpenHandle(a)
Assign == \E a \in Accessors : AssignHandle(a)
Read == \E a \in Accessors : ReadSample(a)

NextShared == Test \/ Open \/ Assign \/ Read

SpecShared == InitShared /\ [][NextShared]_vars

\* ------------------------------------------------- properties
Got == result.status = "returned"

\* the stored series of the index of the last access, as __init__ left it
StoredRow == built.X[result.idx + 1]

\* labels exist for the dataset
LabelsExist == IF mode = "array" THEN y # NoLabels ELSE "y" \in file.keys

\* the storage can be read: the in-memory arrays, or a file that opens and holds "X"
StorageReadable == mode = "array" \/ (file.readable /\ "X" \in file.keys)

Sharers(d) == {a \in Accessors : owner[a] = d}

\* C1: in both storage modes a returned sample has 6 elements when labels exist
\* and return_labels is true, and 5 elements otherwise.
C1_SampleLength ==
    Got => Len(result.sample) = IF LabelsExist /\ return_labels THEN 6 ELSE 5

C1_Witness == Got /\ mode = "file" /\ Len(result.sample) = 6

\* C2: in both storage modes a returned sample is, in this order, the requested
\* index, the four tensors mcar returned in the order it returned them, and,
\* when there is a sixth element, the label stored for the index.
C2_FieldOrder ==
    Got =>
        LET s == result.sample
            out == mcar(Tensor(StoredDtype, StoredRow), result.drawn)
        IN  /\ Len(s) \in {5, 6}
            /\ s[1].data = <<result.idx>>
            /\ \A k \in 1 .. 4 : s[k + 1] = to(out[k], "float32")
            /\ Len(s) = 6 => s[6].data = <<built.y[result.idx + 1]>>

C2_Witness ==
    Got /\ mode = "array" /\ result.idx > 0 /\ Len(result.sample) = 6
        /\ result.drawn # {}

\* C3: in a returned sample, every position where indicating_mask is 1 holds a
\* value (is not missing) in the stored series of the index.
C3_ArtificialWithinObserved ==
    Got => \A k \in Positions :
              result.sample[5].data[k] = 1 => ~IsNan(StoredRow[k])

C3_Witness ==
    Got /\ result.drawn # {} /\ \E k \in Positions : IsNan(StoredRow[k])

\* C4: in a returned sample, missing_mask and indicating_mask have the shape of
\* the series and no position is 1 in both.
C4_MasksDisjoint ==
    Got =>
        LET s == result.sample
        IN  /\ DOMAIN s[2].data = Positions
            /\ DOMAIN s[3].data = Positions
            /\ DOMAIN s[4].data = Positions
            /\ DOMAIN s[5].data = Positions
            /\ \A k \in Positions : ~(s[4].data[k] = 1 /\ s[5].data[k] = 1)

C4_Witness ==
    Got /\ mode = "file" /\ result.drawn # {}
        /\ \E k \in Positions : result.sample[4].data[k] = 1

OtherModeOutcomes ==
    IF mode = "array" THEN FileOutcomes(Single, result.idx)
                      ELSE ArrayOutcomes(result.idx)

\* C7: over the same data, what one storage mode returned and what the other
\* returns for the same index have the same index field, original series,
\* number of elements and label; with the same draw they are the same sample.
C7_ModesAgree ==
    Got => \A o \in OtherModeOutcomes :
              /\ o.sample[1] = result.sample[1]
              /\ o.sample[2] = result.sample[2]
              /\ Len(o.sample) = Len(result.sample)
              /\ Len(o.sample) = 6 => o.sample[6] = result.sample[6]
              /\ o.drawn = result.drawn => o.sample = result.sample

C7_Witness ==
    Got /\ mode = "file" /\ Len(result.sample) = 6 /\ result.drawn # {}

\* C8 as stated: after an access that failed, an access with a valid index succeeds.
C8_LaterAccessSucceeds ==
    result.earlier = "failed" /\ result.idx \in Indices => Got

\* C8 amended: an access that fails returns nothing and has opened and read at
\* most once; after it, an access with a valid index returns the sample of that
\* index when the storage can be read, and fails again, as every access does,
\* when the file does not open or does not hold "X".
C8_FailureSurfaces ==
    /\ Failed(result) =>
          result.sample = <<>> /\ result.opened <= 1 /\ result.read <= 1
    /\ result.earlier = "failed" /\ result.idx \in Indices =>
          IF StorageReadable
          THEN /\ Got
               /\ result.sample[1].data = <<result.idx>>
               /\ result.sample[2].data = nan_to_num(StoredRow)
          ELSE result.status = IF file.readable THEN "KeyError" ELSE "OSError"

C8_Witness == result.earlier = "failed" /\ Got /\ mode = "file"

\* C9: two accessors sharing a file-backed dataset can both find the handle
\* unset and both open: then two handles are opened and, once both are
\* assigned, one of them is unreferenced.  A dataset with one accessor opens at
\* most one handle and leaves none unreferenced.
C9_SharedHandleRace ==
    \A d \in Datasets :
        /\ opens[d] <= Cardinality(Sharers(d))
        /\ Cardinality(Sharers(d)) <= 1 => opens[d] <= 1 /\ Unreferenced(d) = {}
        /\ (\A a \in Sharers(d) : pc[a] \in {"idle", "read"}) =>
               Cardinality(Unreferenced(d)) = IF opens[d] = 0 THEN 0 ELSE opens[d] - 1

C9_Witness ==
    /\ Cardinality(Sharers(Single)) = 2
    /\ opens[Single] = 2
    /\ Unreferenced(Single) # {}
    /\ \A a \in Accessors : pc[a] = "idle"
    /\ Got

\* C10: an access leaves X, y, the mode, return_labels and rate as __init__ set
\* them; an in-memory dataset never opens a handle; a handle once set is never
\* unset again.
C10_Frame ==
    /\ [](/\ Attributes = built
          /\ mode = "array" => file_handle[Single] = None /\ opens[Single] = 0)
    /\ [][\A d \in Datasets : file_handle[d] # None => file_handle'[d] # None]_vars

C10_Witness ==
    Got /\ mode = "file" /\ file_handle[Single] # None /\ result.earlier = "failed"

=============================================================================
